---------------------------- MODULE Spec2Model ----------------------------
(***************************************************************************)
(* Lesson Lab 2.0 backend: the AI orchestration service (AIService), the   *)
(* lesson orchestrator (LessonService) and the HTTP routes in front of it. *)
(*                                                                         *)
(* Representation.                                                         *)
(*   - A text is [s |-> its source string, n |-> its length in chars]:     *)
(*     the prefix t[:k] is the same source with n cut to k.                *)
(*   - The text an LLM returns is [open, body, close]: an optional opening *)
(*     fence ("json": three backticks and the word json; "bare": three     *)
(*     backticks alone, written ~~~ below), a body, and an optional        *)
(*     closing fence.  The body carries the JSON value it parses to        *)
(*     (kind "none" when it is not JSON).                                  *)
(*   - A JSON document is [kind |-> "object" | "array" | "none", v |-> _]. *)
(*   - Scores and temperatures are in tenths (0.7 is 7).                   *)
(*   - Timestamps (datetime.now()) are not represented.                    *)
(***************************************************************************)
EXTENDS Integers, Sequences, FiniteSets, TLC

(* ----------------------------- bounds ---------------------------------- *)

MaxLessons == 1

MaxRevisions == 2

MaxInFlight == 2

(* ------------------------- program constants --------------------------- *)

JsonFenceLen == 7

FenceLen == 3

MainActivityLimit == 200

RawResponseLimit == 500

GeneratorMaxTokens == 2000

MetadataMaxTokens == 1500

DefaultTemperature == 7

MetadataTemperature == 7

EvaluatorMaxTokens == 800

EvaluatorTemperature == 3

ReviserMaxTokens == 2000

FallbackScore == 7

(* ------------------------------ texts ---------------------------------- *)

Min(a, b) == IF a <= b THEN a ELSE b

Lit(str) == [s |-> str, n |-> Len(str)]

Take(t, k) == [s |-> t.s, n |-> Min(t.n, k)]

(* ------------------------ JSON documents ------------------------------- *)

Obj(r) == [kind |-> "object", v |-> r]

JArray == [kind |-> "array", v |-> <<>>]

NotJson == [kind |-> "none", v |-> <<>>]

IsObject(j) == j.kind = "object"

Has(j, key) == IsObject(j) /\ key \in DOMAIN j.v

With(r, key, val) == [k \in DOMAIN r \cup {key} |-> IF k = key THEN val ELSE r[k]]

(* ------------------- AIService.call_llm and its replies ---------------- *)

Usage == [prompt_tokens |-> 10, completion_tokens |-> 20, total_tokens |-> 30]

LLMError == [kind |-> "error"]

LLMText(open, body, close) ==
    [kind |-> "text", open |-> open, body |-> body, close |-> close, usage |-> Usage]

Body(text, json) == [text |-> text, json |-> json]

Opens == {"none", "json", "bare"}

RepliesOver(bodies) ==
    {LLMError} \cup {LLMText(o, b, c) : o \in Opens, b \in bodies, c \in BOOLEAN}

(* A variant that issues the request once more when it has failed. *)
call_llm_Retrying(reply, max_tokens, temperature) ==
    IF reply.kind = "error"
    THEN [ok |-> FALSE, error |-> "LLM API call failed", requests |-> 2]
    ELSE [ok |-> TRUE,
          content |-> [open |-> reply.open, body |-> reply.body, close |-> reply.close],
          usage |-> reply.usage,
          request |-> [model |-> "gpt-4o", max_tokens |-> max_tokens,
                       temperature |-> temperature],
          requests |-> 1]

(* call_llm: the provider's failure becomes one exception; otherwise the   *)
(* content and the token usage are returned. requests is the number of     *)
(* times chat.completions.create is called: once, inside the try.          *)
call_llm(reply, max_tokens, temperature) ==
    IF reply.kind = "error"
    THEN [ok |-> FALSE, error |-> "LLM API call failed", requests |-> 1]
    ELSE [ok |-> TRUE,
          requests |-> 1,
          content |-> [open |-> reply.open, body |-> reply.body, close |-> reply.close],
          usage |-> reply.usage,
          request |-> [model |-> "gpt-4o", max_tokens |-> max_tokens,
                       temperature |-> temperature]]

(* A leading json fence is cut (content[7:]), then a trailing fence is     *)
(* cut (content[:-3]); a leading fence without the json tag stays, unless  *)
(* it is the whole content and so is the trailing fence as well.           *)
StripFences(content) ==
    [open  |-> IF content.open = "json" THEN "none"
               ELSE IF content.open = "bare" /\ content.body.text.n = 0 /\ ~content.close
                    THEN "none"
                    ELSE content.open,
     body  |-> content.body,
     close |-> FALSE]

OpenLen(open) == IF open = "json" THEN JsonFenceLen ELSE IF open = "bare" THEN FenceLen ELSE 0

OpenStr(open) == IF open = "json" THEN "~~~json" ELSE IF open = "bare" THEN "~~~" ELSE ""

(* The characters of a content, fences included. *)
ContentText(content) ==
    [s |-> OpenStr(content.open) \o content.body.text.s
             \o (IF content.close THEN "~~~" ELSE ""),
     n |-> OpenLen(content.open) + content.body.text.n
             + (IF content.close THEN FenceLen ELSE 0)]

(* json.loads: a JSONDecodeError unless the whole content is one JSON text. *)
JsonLoads(content) ==
    IF content.open = "none" /\ ~content.close /\ content.body.json.kind # "none"
    THEN [ok |-> TRUE, value |-> content.body.json]
    ELSE [ok |-> FALSE, value |-> NotJson]

(* -------------------- AIService: the Plan Generator -------------------- *)

SystemPrompt == "You are an expert curriculum designer"

Prompt(topic, grade, duration) == [topic |-> topic, grade |-> grade, duration |-> duration]

FallbackObjectives(topic) ==
    << "Students will understand key concepts about " \o topic,
       "Students will be able to apply " \o topic \o " knowledge in practical situations",
       "Students will demonstrate comprehension through assessment activities" >>

FallbackStructure(content, duration) ==
    [introduction  |-> Lit("Engage students with topic overview and prior knowledge activation"),
     main_activity |-> IF ContentText(content).n > 0
                       THEN Take(ContentText(content), MainActivityLimit)
                       ELSE Lit("Interactive lesson activity"),
     assessment    |-> Lit("Quick formative assessment to check understanding"),
     timing        |-> Lit(ToString(duration) \o " minutes total")]

(* _generate_objectives_and_structure: one completion call outside any     *)
(* try; the parse and the metadata assignment inside a try that catches    *)
(* json.JSONDecodeError only.                                              *)
generate_objectives_and_structure(topic, grade, duration, reply) ==
    LET llm == call_llm(reply, GeneratorMaxTokens, DefaultTemperature) IN
    IF ~llm.ok THEN [ok |-> FALSE, error |-> llm.error] ELSE
    LET metadata == [prompt_used   |-> Prompt(topic, grade, duration),
                     system_prompt |-> SystemPrompt,
                     model         |-> "gpt-4o",
                     max_tokens    |-> MetadataMaxTokens,
                     temperature   |-> MetadataTemperature,
                     generated_at  |-> "time of generation",
                     token_usage   |-> llm.usage]
        content == StripFences(llm.content)
        parsed  == JsonLoads(content)
    IN  IF parsed.ok
        THEN IF IsObject(parsed.value)
             THEN [ok |-> TRUE, result |-> With(parsed.value.v, "metadata", metadata)]
             ELSE [ok |-> FALSE, error |-> "TypeError"]
        ELSE [ok |-> TRUE,
              result |-> [objectives |-> FallbackObjectives(topic),
                          structure  |-> FallbackStructure(content, duration),
                          metadata   |-> With(With(metadata, "parsing_failed", TRUE),
                                              "raw_response",
                                              Take(ContentText(content), RawResponseLimit))]]

find_resources(topic, grade) ==
    << [title |-> "Educational video about " \o topic, type |-> "video",
        url |-> "https://example.com/video", score |-> 9,
        reasoning |-> "Highly relevant to " \o topic \o ", appropriate for grade " \o grade],
       [title |-> "Interactive worksheet on " \o topic, type |-> "worksheet",
        url |-> "https://example.com/worksheet", score |-> 8,
        reasoning |-> "Good practice material with clear instructions"] >>

assemble_lesson_plan(objectives, structure, resources) ==
    [title |-> "Lesson Plan: " \o (IF objectives # <<>> THEN objectives[1] ELSE "Custom Topic"),
     objectives |-> objectives,
     structure |-> structure,
     resources |-> resources,
     materials_needed |-> <<"Whiteboard", "Handouts", "Computer/Projector">>,
     differentiation |-> "Provide visual aids for visual learners, allow verbal responses for auditory learners"]

DefaultThoughts ==
    [objectives_rationale |-> "AI reasoning not available",
     structure_rationale  |-> "AI reasoning not available",
     activity_rationale   |-> "AI reasoning not available",
     assessment_rationale |-> "AI reasoning not available"]

(* generate_lesson_plan: the three keys are read by subscript (KeyError    *)
(* when the parsed object lacks one), the reasoning by .get with a default.*)
generate_lesson_plan(topic, grade, duration, reply) ==
    LET oas == generate_objectives_and_structure(topic, grade, duration, reply) IN
    IF ~oas.ok THEN [ok |-> FALSE, error |-> oas.error] ELSE
    IF "objectives" \notin DOMAIN oas.result \/ "structure" \notin DOMAIN oas.result
    THEN [ok |-> FALSE, error |-> "KeyError"]
    ELSE [ok |-> TRUE,
          plan |-> Obj(assemble_lesson_plan(oas.result.objectives, oas.result.structure,
                                            find_resources(topic, grade))),
          generation_metadata |-> oas.result.metadata,
          thoughts |-> IF "pedagogical_reasoning" \in DOMAIN oas.result
                       THEN oas.result.pedagogical_reasoning
                       ELSE DefaultThoughts]

(* ------------------------ AIService: the Evaluator --------------------- *)

FallbackRubric == [score |-> FallbackScore, reasoning |-> "Evaluation failed, default score"]

FallbackEvaluation ==
    Obj([objective_clarity   |-> FallbackRubric,
         age_appropriateness |-> FallbackRubric,
         completeness        |-> FallbackRubric,
         overall_score       |-> FallbackScore,
         suggestions |-> <<"Manual review needed - evaluation system error">>])

(* A variant that returns what the parse left, parsed or not. *)
evaluate_lesson_plan_Unguarded(lesson_plan, topic, grade, duration, reply) ==
    LET llm == call_llm(reply, EvaluatorMaxTokens, EvaluatorTemperature) IN
    IF ~llm.ok THEN NotJson ELSE JsonLoads(StripFences(llm.content)).value

(* evaluate_lesson_plan: call, strip and parse are inside one try whose    *)
(* except Exception returns the default evaluation; what json.loads gives  *)
(* is returned as it is.                                                   *)
evaluate_lesson_plan(lesson_plan, topic, grade, duration, reply) ==
    LET llm == call_llm(reply, EvaluatorMaxTokens, EvaluatorTemperature) IN
    IF ~llm.ok THEN FallbackEvaluation ELSE
    LET parsed == JsonLoads(StripFences(llm.content)) IN
    IF parsed.ok THEN parsed.value ELSE FallbackEvaluation

(* ------------------------- AIService: the Reviser ---------------------- *)

(* A variant that answers a parse failure with an empty plan. *)
ReviserFallback_Blank(original_plan, feedback) ==
    [ok |-> TRUE,
     plan |-> [kind |-> "object", v |-> [objectives |-> <<>>]],
     metadata |-> [revision_failed |-> TRUE,
                   error |-> "JSONDecodeError",
                   feedback |-> feedback]]

(* A variant that raises on a parse failure as on a failed call. *)
ReviserFallback_Raises(original_plan, feedback) ==
    [ok |-> FALSE, error |-> "Failed to generate revision: JSONDecodeError"]

(* except json.JSONDecodeError: the original plan, tagged revision_failed. *)
ReviserFallback(original_plan, feedback) ==
    [ok |-> TRUE,
     plan |-> original_plan,
     metadata |-> [revision_failed |-> TRUE,
                   error |-> "JSONDecodeError",
                   feedback |-> feedback]]

(* A variant that swallows the failed call as the Evaluator does. *)
ReviserRaises_Swallowed(error) ==
    [ok |-> TRUE,
     plan |-> [kind |-> "object", v |-> [objectives |-> <<>>]],
     metadata |-> [revision_failed |-> TRUE, error |-> error, feedback |-> <<>>]]

(* except Exception: raise Exception("Failed to generate revision: ...") *)
ReviserRaises(error) ==
    [ok |-> FALSE, error |-> "Failed to generate revision: " \o error]

(* revise_lesson_plan: json.JSONDecodeError returns the original plan      *)
(* tagged revision_failed; any other exception (the call) is raised again. *)
revise_lesson_plan(original_plan, feedback, topic, grade, duration, reply) ==
    LET llm == call_llm(reply, ReviserMaxTokens, DefaultTemperature) IN
    IF ~llm.ok THEN ReviserRaises(llm.error) ELSE
    LET parsed == JsonLoads(StripFences(llm.content)) IN
    IF parsed.ok
    THEN [ok |-> TRUE,
          plan |-> parsed.value,
          metadata |-> [original_feedback |-> feedback,
                        model_used |-> "gpt-4o",
                        token_usage |-> llm.usage]]
    ELSE ReviserFallback(original_plan, feedback)

(* ------------------ what the completion endpoint may say --------------- *)

Topics == {"Photosynthesis", "Fractions"}

Grades == {"5"}

Durations == {45, 60}

LLMStructure ==
    [introduction  |-> Lit("warm-up"),
     main_activity |-> Lit("experiment"),
     assessment    |-> Lit("quiz"),
     timing        |-> Lit("45 minutes")]

LLMReasoning ==
    [objectives_rationale |-> "r1", structure_rationale |-> "r2",
     activity_rationale |-> "r3", assessment_rationale |-> "r4"]

JsonText == [s |-> "{json}", n |-> 300]

ProseTexts == {[s |-> "prose", n |-> k] : k \in {0, 120, 250, 600}}

(* The JSON values a Generator reply may parse to. *)
GeneratorJson ==
    { Obj([objectives |-> <<"o1", "o2", "o3">>, structure |-> LLMStructure,
           pedagogical_reasoning |-> LLMReasoning]),
      Obj([objectives |-> <<"o1", "o2", "o3">>, structure |-> LLMStructure]),
      Obj([objectives |-> <<>>, structure |-> LLMStructure]),
      Obj([structure |-> LLMStructure]),
      Obj([objectives |-> <<"o1">>]),
      Obj([objectives |-> <<"o1">>,
           structure |-> [introduction |-> Lit("warm-up"), main_activity |-> Lit("experiment")]]),
      JArray }

GeneratorReplies ==
    RepliesOver({Body(JsonText, j) : j \in GeneratorJson}
                \cup {Body(t, NotJson) : t \in ProseTexts})

Rubric(score) == [score |-> score, reasoning |-> "because"]

(* The JSON values an Evaluator reply may parse to. *)
EvaluatorJson ==
    { Obj([objective_clarity |-> Rubric(8), age_appropriateness |-> Rubric(9),
           completeness |-> Rubric(10), overall_score |-> 9, suggestions |-> <<"s1">>]),
      Obj([objective_clarity |-> Rubric(8), age_appropriateness |-> Rubric(9),
           completeness |-> Rubric(7), overall_score |-> 85, suggestions |-> <<"s1">>]),
      Obj([objective_clarity |-> Rubric(8), age_appropriateness |-> Rubric(9),
           overall_score |-> 8, suggestions |-> <<>>]),
      Obj([objective_clarity |-> Rubric(8), age_appropriateness |-> Rubric(9),
           completeness |-> Rubric(7), suggestions |-> <<>>]),
      Obj([objective_clarity |-> Rubric(8), age_appropriateness |-> Rubric(9),
           completeness |-> Rubric(7), engagement |-> Rubric(6),
           overall_score |-> 7, suggestions |-> <<>>]),
      JArray }

EvaluatorReplies ==
    RepliesOver({Body(JsonText, j) : j \in EvaluatorJson}
                \cup {Body(t, NotJson) : t \in ProseTexts})

RevisedPlan ==
    Obj(assemble_lesson_plan(<<"revised o1", "revised o2">>, LLMStructure,
                             find_resources("revised", "5")))

(* The JSON values a Reviser reply may parse to. *)
ReviserJson == {RevisedPlan, Obj([title |-> "only a title"]), JArray}

ReviserReplies ==
    RepliesOver({Body(JsonText, j) : j \in ReviserJson}
                \cup {Body(t, NotJson) : t \in ProseTexts})

(* The replies drawn when the services run behind the routes: the failed   *)
(* call, and each of the given bodies, unfenced or inside a json fence.    *)
Served(bodies) ==
    {LLMError} \cup {LLMText(o, b, o = "json") : o \in {"none", "json"}, b \in bodies}

Prose == Body([s |-> "prose", n |-> 120], NotJson)

(* Generator bodies behind the routes: a complete object, and one that     *)
(* lacks the structure key.                                                *)
GeneratorServed ==
    { Body(JsonText, Obj([objectives |-> <<"o1", "o2", "o3">>, structure |-> LLMStructure,
                          pedagogical_reasoning |-> LLMReasoning])),
      Body(JsonText, Obj([objectives |-> <<"o1">>])) }

(* Evaluator bodies behind the routes: a complete evaluation, and prose. *)
EvaluatorServed ==
    { Body(JsonText, Obj([objective_clarity |-> Rubric(8), age_appropriateness |-> Rubric(9),
                          completeness |-> Rubric(10), overall_score |-> 9,
                          suggestions |-> <<"s1">>])),
      Prose }

(* Reviser bodies behind the routes: a complete plan, and prose. *)
ReviserServed == {Body(JsonText, RevisedPlan), Prose}

(* ------------------------------- state --------------------------------- *)

VARIABLES
    lesson_plans,      \* table lesson_plans: lesson id -> row
    lesson_revisions,  \* table lesson_revisions: rows in insertion order
    task,              \* HTTP requests suspended at an I/O boundary, by slot
    background,        \* the fire-and-forget evaluation task of each lesson
    last,              \* the response being sent (op "none": none is)
    revise_log,        \* per lesson: how its revise calls ended (history)
    ai,                \* the AIService call made most recently, with its result
    auth               \* the get_current_user call made most recently, with its result

dbvars == <<lesson_plans, lesson_revisions, task, background, last, revise_log>>

vars == <<lesson_plans, lesson_revisions, task, background, last, revise_log, ai, auth>>

(* --------------------------- the request inputs ------------------------ *)

Users == {"alice", "bob"}

(* The users who create lessons. *)
Creators == {"alice"}

LessonIds == 1..MaxLessons

Whitespace == {" ", "\t"}

(* Feedback texts, as sequences of characters. *)
Feedbacks == { <<>>, <<" ", "\t">>, <<"a">>, <<" ", "b">> }

RECURSIVE LStrip(_)
LStrip(str) ==
    IF str # <<>> /\ Head(str) \in Whitespace THEN LStrip(Tail(str)) ELSE str

RECURSIVE RStrip(_)
RStrip(str) ==
    IF str # <<>> /\ str[Len(str)] \in Whitespace
    THEN RStrip(SubSeq(str, 1, Len(str) - 1))
    ELSE str

(* A variant of strip that keeps the text as it is. *)
Strip_Kept(str) == str

(* str.strip() *)
Strip(str) == RStrip(LStrip(str))

(* ------------------------ nullable JSON columns ------------------------ *)

JNull == [kind |-> "null", v |-> <<>>]

JBool(b) == [kind |-> "bool", v |-> b]

JStr(str) == [kind |-> "string", v |-> str]

(* --------------------------- the two tables ---------------------------- *)

DefaultRevisionNumber == 0

(* A variant of the select without its .eq("user_id", ..). *)
SelectLesson_AnyOwner(plans, lesson_id, user_id) ==
    IF lesson_id \in DOMAIN plans THEN <<plans[lesson_id]>> ELSE <<>>

(* table("lesson_plans").select("*").eq("id", ..).eq("user_id", ..) *)
SelectLesson(plans, lesson_id, user_id) ==
    IF lesson_id \in DOMAIN plans /\ plans[lesson_id].user_id = user_id
    THEN <<plans[lesson_id]>>
    ELSE <<>>

(* table("lesson_plans").select("*").eq("user_id", ..): rows by id. *)
SelectUserLessons(plans, user_id) ==
    {plans[l] : l \in {k \in DOMAIN plans : plans[k].user_id = user_id}}

(* table("lesson_plans").update(fields).eq("id", ..).eq("user_id", ..) *)
UpdateOwnedLesson(plans, lesson_id, user_id, fields) ==
    IF SelectLesson(plans, lesson_id, user_id) = <<>>
    THEN plans
    ELSE [plans EXCEPT ![lesson_id] =
            [k \in DOMAIN @ |-> IF k \in DOMAIN fields THEN fields[k] ELSE @[k]]]

(* The columns lesson_data leaves out, as the table fills them: nothing,   *)
(* a revision counter that starts at 0, and the time of the insert.        *)
ColumnDefaults ==
    [updated_at |-> "time of creation",
     evaluation |-> JNull,
     revised_plan_json |-> JNull,
     revision_feedback |-> JNull,
     current_revision_number |-> 0,
     user_rating |-> JNull]

(* A variant that writes the row back whole, the columns it was not given *)
(* at their defaults.                                                    *)
UpdateLessonById_WholeRow(plans, lesson_id, fields) ==
    IF lesson_id \notin DOMAIN plans
    THEN plans
    ELSE [plans EXCEPT ![lesson_id] =
            [k \in DOMAIN @ |-> IF k \in DOMAIN fields THEN fields[k]
                                ELSE IF k \in DOMAIN ColumnDefaults THEN ColumnDefaults[k]
                                ELSE @[k]]]

(* table("lesson_plans").update(fields).eq("id", ..) *)
UpdateLessonById(plans, lesson_id, fields) ==
    IF lesson_id \notin DOMAIN plans
    THEN plans
    ELSE [plans EXCEPT ![lesson_id] =
            [k \in DOMAIN @ |-> IF k \in DOMAIN fields THEN fields[k] ELSE @[k]]]

(* uuid.uuid4(): an identifier no row has. *)
FreshId(plans) == Len(plans) + 1

(* The row the insert of generate_lesson stores: lesson_data plus the      *)
(* columns it leaves to their defaults.                                    *)
NewLessonRow(lesson_id, user_id, request, lesson_plan) ==
    [id |-> lesson_id,
     user_id |-> user_id,
     title |-> request.topic \o " - Grade " \o request.grade,
     topic |-> request.topic,
     grade |-> request.grade,
     duration |-> request.duration,
     plan_json |-> lesson_plan.plan,
     agent_thoughts |-> IF request.show_agent_thoughts THEN Obj(lesson_plan.thoughts) ELSE JNull,
     generation_metadata |-> lesson_plan.generation_metadata,
     updated_at |-> ColumnDefaults.updated_at,
     evaluation |-> ColumnDefaults.evaluation,
     revised_plan_json |-> ColumnDefaults.revised_plan_json,
     revision_feedback |-> ColumnDefaults.revision_feedback,
     current_revision_number |-> ColumnDefaults.current_revision_number,
     user_rating |-> ColumnDefaults.user_rating]

RevisionsOf(revisions, lesson_id) ==
    SelectSeq(revisions, LAMBDA r : r.lesson_id = lesson_id)

(* .order("revision_number"): every order of the rows that is ascending in *)
(* revision_number (rows with equal numbers come in either order).         *)
OrderByRevisionNumber(rows) ==
    LET n == Len(rows)
        perms == {p \in [1..n -> 1..n] : \A i, j \in 1..n : i # j => p[i] # p[j]}
    IN  { [i \in 1..n |-> rows[p[i]]] :
          p \in {q \in perms : \A i \in 1..n, j \in 1..n :
                     i < j => rows[q[i]].revision_number <= rows[q[j]].revision_number} }

(* ------------------------------ responses ------------------------------ *)

Response(op, user_id, lesson_id, target, status, detail, body) ==
    [op |-> op, lesson_id |-> lesson_id, target |-> target,
     status |-> status, detail |-> detail, body |-> body]

NoBody == [kind |-> "none", v |-> <<>>]

NoResponse == [op |-> "none"]

(* What the routes' "except Exception as e: raise HTTPException(500,       *)
(* detail=str(e))" makes of an exception, an HTTPException included.       *)
ServerError(op, user_id, lesson_id, target, detail) ==
    Response(op, user_id, lesson_id, target, 500, detail, NoBody)

(* The response, with a note of the completion calls its request issued. *)
Counted(response, llm_calls) ==
    [k \in DOMAIN response \cup {"llm_calls"} |->
        IF k = "llm_calls" THEN llm_calls ELSE response[k]]

(* How the request's lesson id stands to the caller when it is looked up.  *)
Target(plans, lesson_id, user_id) ==
    IF lesson_id \notin DOMAIN plans THEN "absent"
    ELSE IF plans[lesson_id].user_id = user_id THEN "owned" ELSE "foreign"

(* response_model=LessonResponse: plan_json: dict, evaluation and          *)
(* revised_plan_json: Optional[dict].                                      *)
ResponseModelOK(row) ==
    /\ row.plan_json.kind = "object"
    /\ row.evaluation.kind \in {"null", "object"}
    /\ row.revised_plan_json.kind \in {"null", "object"}

LessonResponse(op, user_id, lesson_id, target, row) ==
    IF ResponseModelOK(row)
    THEN Response(op, user_id, lesson_id, target, 200, "", [kind |-> "lesson", v |-> row])
    ELSE ServerError(op, user_id, lesson_id, target, "Internal Server Error")

HTTPException(status, detail) == [status |-> status, detail |-> detail]

(* An HTTPException raised inside a route's try block is an Exception: the *)
(* route's handler catches it and raises HTTPException(500, str(e)).       *)
RouteExcept(op, user_id, lesson_id, target, exc) ==
    ServerError(op, user_id, lesson_id, target,
                ToString(exc.status) \o ": " \o exc.detail)

DbError == "database error"

(* ------------------- LessonService and routes: reads ------------------- *)

(* GET /: get_lessons over get_user_lessons. *)
get_lessons(plans, user_id, dbok) ==
    IF ~dbok THEN ServerError("list", user_id, 0, "none", DbError) ELSE
    LET rows == SelectUserLessons(plans, user_id) IN
    IF \A row \in rows : ResponseModelOK(row)
    THEN Response("list", user_id, 0, "none", 200, "", [kind |-> "lessons", v |-> rows])
    ELSE ServerError("list", user_id, 0, "none", "Internal Server Error")

(* GET /{lesson_id}: get_lesson over LessonService.get_lesson, whose       *)
(* .single() raises when no row matches.                                   *)
get_lesson(plans, lesson_id, user_id, dbok) ==
    LET target == Target(plans, lesson_id, user_id)
        rows == SelectLesson(plans, lesson_id, user_id)
    IN  IF ~dbok THEN ServerError("get", user_id, lesson_id, target, DbError)
        ELSE IF rows = <<>>
        THEN ServerError("get", user_id, lesson_id, target, "no rows returned")
        ELSE LessonResponse("get", user_id, lesson_id, target, rows[1])

(* ------------------- LessonService and routes: rate -------------------- *)

(* LessonService.rate_lesson: the table after the call. *)
rate_lesson_update(plans, lesson_id, user_id, rating) ==
    UpdateOwnedLesson(plans, lesson_id, user_id, [user_rating |-> JBool(rating)])

(* PUT /{lesson_id}/rating: the response. *)
rate_lesson(plans, lesson_id, user_id, rating, dbok) ==
    LET target == Target(plans, lesson_id, user_id) IN
    IF ~dbok
    THEN ServerError("rate", user_id, lesson_id, target,
                     "Failed to submit rating: " \o DbError)
    ELSE IF SelectLesson(plans, lesson_id, user_id) = <<>>
    THEN RouteExcept("rate", user_id, lesson_id, target,
                     HTTPException(404, "Lesson not found"))
    ELSE Response("rate", user_id, lesson_id, target, 200,
                  "Rating submitted successfully", [kind |-> "rating", v |-> rating])

(* ------------------------------ actions -------------------------------- *)

Idle == [pc |-> "idle"]

FreeSlots == {s \in 1..MaxInFlight : task[s].pc = "idle"}

(* The slot a new suspended request takes. *)
NewSlot == CHOOSE s \in FreeSlots : \A t \in FreeSlots : s <= t

InFlight(op) == {s \in 1..MaxInFlight : task[s].pc # "idle" /\ task[s].op = op}

GetLessons ==
    \E user_id \in Users, dbok \in BOOLEAN :
        /\ last' = get_lessons(lesson_plans, user_id, dbok)
        /\ UNCHANGED <<lesson_plans, lesson_revisions, task, background, revise_log, ai, auth>>

GetLesson ==
    \E lesson_id \in LessonIds, user_id \in Users, dbok \in BOOLEAN :
        /\ last' = get_lesson(lesson_plans, lesson_id, user_id, dbok)
        /\ UNCHANGED <<lesson_plans, lesson_revisions, task, background, revise_log, ai, auth>>

RateLesson ==
    \E lesson_id \in LessonIds, user_id \in Users, rating \in BOOLEAN, dbok \in BOOLEAN :
        /\ lesson_plans' = IF dbok
                           THEN rate_lesson_update(lesson_plans, lesson_id, user_id, rating)
                           ELSE lesson_plans
        /\ last' = rate_lesson(lesson_plans, lesson_id, user_id, rating, dbok)
        /\ UNCHANGED <<lesson_revisions, task, background, revise_log, ai, auth>>

(* ------------- POST /generate and the background evaluation ------------ *)

LessonRequests ==
    {[topic |-> "Photosynthesis", grade |-> "5", duration |-> 45, show_agent_thoughts |-> TRUE]}

(* generate_lesson up to its completion call: a failed generation leaves   *)
(* through the route's except; otherwise the request goes on to the insert.*)
GenerateLesson ==
    \E user_id \in Creators, request \in LessonRequests, reply \in Served(GeneratorServed) :
        LET lesson_plan == generate_lesson_plan(request.topic, request.grade,
                                                request.duration, reply)
            llm_result == call_llm(reply, GeneratorMaxTokens, DefaultTemperature)
        IN  /\ FreeSlots # {}
            /\ Len(lesson_plans) + Cardinality(InFlight("generate")) < MaxLessons
            /\ IF lesson_plan.ok
               THEN /\ task' = [task EXCEPT ![NewSlot] =
                                  [pc |-> "insert", op |-> "generate", user_id |-> user_id,
                                   request |-> request, lesson_plan |-> lesson_plan,
                                   llm_calls |-> llm_result.requests]]
                    /\ last' = NoResponse
               ELSE /\ last' = Counted(ServerError("generate", user_id, 0, "none",
                                                   lesson_plan.error),
                                       llm_result.requests)
                    /\ UNCHANGED task
            /\ UNCHANGED <<lesson_plans, lesson_revisions, background, revise_log, ai, auth>>

(* A variant that creates the evaluation task twice. *)
create_task_Twice(tasks) ==
    tasks \o <<[pc |-> "evaluate", evaluation |-> JNull, llm_calls |-> 0],
               [pc |-> "evaluate", evaluation |-> JNull, llm_calls |-> 0]>>

(* asyncio.create_task(self._evaluate_lesson_async(..)): one more task,    *)
(* not yet run.                                                            *)
create_task(tasks) ==
    Append(tasks, [pc |-> "evaluate", evaluation |-> JNull, llm_calls |-> 0])

(* generate_lesson from the insert on: the row is stored, the evaluation   *)
(* task is created, the stored row is the response.                        *)
GenerateInsert(s) ==
    \E dbok \in BOOLEAN :
        LET t == task[s]
            lesson_id == FreshId(lesson_plans)
            row == NewLessonRow(lesson_id, t.user_id, t.request, t.lesson_plan)
        IN  /\ t.pc = "insert"
            /\ IF dbok
               THEN /\ lesson_plans' = Append(lesson_plans, row)
                    /\ background' = create_task(background)
                    /\ revise_log' = Append(revise_log, [ok |-> <<>>, bad |-> FALSE])
                    /\ last' = Counted(LessonResponse("generate", t.user_id, lesson_id,
                                                      "owned", row),
                                       t.llm_calls)
               ELSE /\ last' = Counted(ServerError("generate", t.user_id, 0, "none",
                                                   "Failed to create lesson plan"),
                                       t.llm_calls)
                    /\ UNCHANGED <<lesson_plans, background, revise_log>>
            /\ task' = [task EXCEPT ![s] = Idle]
            /\ UNCHANGED <<lesson_revisions, ai, auth>>

(* _evaluate_lesson_async up to the Evaluator's answer. *)
BackgroundEvaluate(lesson_id) ==
    \E reply \in Served(EvaluatorServed) :
        LET row == lesson_plans[lesson_id] IN
        /\ background[lesson_id].pc = "evaluate"
        /\ background' = [background EXCEPT ![lesson_id] =
                            [pc |-> "update",
                             evaluation |-> evaluate_lesson_plan(row.plan_json, row.topic,
                                                row.grade, row.duration, reply),
                             llm_calls |-> @.llm_calls
                                 + call_llm(reply, EvaluatorMaxTokens,
                                            EvaluatorTemperature).requests]]
        /\ last' = NoResponse
        /\ UNCHANGED <<lesson_plans, lesson_revisions, task, revise_log, ai, auth>>

(* _evaluate_lesson_async: the update of the evaluation column; a failure  *)
(* is logged and swallowed (the task ends "failed").                       *)
BackgroundUpdate(lesson_id) ==
    \E dbok \in BOOLEAN :
        /\ background[lesson_id].pc = "update"
        /\ lesson_plans' = IF dbok
                           THEN UpdateLessonById(lesson_plans, lesson_id,
                                    [evaluation |-> background[lesson_id].evaluation])
                           ELSE lesson_plans
        /\ background' = [background EXCEPT ![lesson_id] =
                            [pc |-> IF dbok THEN "done" ELSE "failed", evaluation |-> JNull,
                             llm_calls |-> @.llm_calls]]
        /\ last' = NoResponse
        /\ UNCHANGED <<lesson_revisions, task, revise_log, ai, auth>>

(* ----------------------- POST /{lesson_id}/revise ---------------------- *)

format_lesson(lesson_data) ==
    [id |-> lesson_data.id,
     user_id |-> lesson_data.user_id,
     title |-> lesson_data.title,
     topic |-> lesson_data.topic,
     grade |-> lesson_data.grade,
     duration |-> lesson_data.duration,
     plan_json |-> lesson_data.plan_json,
     agent_thoughts |-> lesson_data.agent_thoughts,
     evaluation |-> lesson_data.evaluation,
     generation_metadata |-> lesson_data.generation_metadata,
     revised_plan_json |-> lesson_data.revised_plan_json,
     revision_feedback |-> lesson_data.revision_feedback,
     current_revision_number |-> lesson_data.current_revision_number,
     user_rating |-> lesson_data.user_rating,
     updated_at |-> lesson_data.updated_at]

(* The route's validation and revise_lesson up to the Reviser's call:      *)
(* either the request ends here with a response, or it goes on with the    *)
(* row it read.                                                            *)
revise_lesson_entry(plans, lesson_id, user_id, feedback, dbok) ==
    LET target == Target(plans, lesson_id, user_id)
        rows == SelectLesson(plans, lesson_id, user_id)
    IN  IF Strip(feedback) = <<>>
        THEN [go |-> FALSE,
              response |-> RouteExcept("revise", user_id, lesson_id, "unchecked",
                                       HTTPException(400, "Feedback cannot be empty"))]
        ELSE IF ~dbok
        THEN [go |-> FALSE,
              response |-> ServerError("revise", user_id, lesson_id, target, DbError)]
        ELSE IF rows = <<>>
        THEN [go |-> FALSE,
              response |-> RouteExcept("revise", user_id, lesson_id, target,
                                       HTTPException(404, "Lesson not found"))]
        ELSE [go |-> TRUE, response |-> NoResponse]

(* A variant that numbers every revision as the first. *)
NextRevisionNumber_First(original_lesson) == DefaultRevisionNumber + 1

(* next_revision_number = original.get("current_revision_number", 0) + 1 *)
NextRevisionNumber(original_lesson) ==
    (IF "current_revision_number" \in DOMAIN original_lesson
     THEN original_lesson.current_revision_number
     ELSE DefaultRevisionNumber) + 1

(* A variant that takes up the work from the latest revision. *)
Snapshot_Latest(row) ==
    [plan_json |-> IF row.revised_plan_json.kind # "null"
                   THEN row.revised_plan_json ELSE row.plan_json,
     topic |-> row.topic, grade |-> row.grade,
     duration |-> row.duration, current_revision_number |-> row.current_revision_number]

(* original_lesson, cut to the fields revise_lesson goes on to read. *)
Snapshot(row) ==
    [plan_json |-> row.plan_json, topic |-> row.topic, grade |-> row.grade,
     duration |-> row.duration, current_revision_number |-> row.current_revision_number]

ReviseStarts(lesson_id, user_id, feedback, dbok) ==
    LET entry == revise_lesson_entry(lesson_plans, lesson_id, user_id, feedback, dbok) IN
    /\ IF entry.go
       THEN /\ FreeSlots # {}
            /\ Len(lesson_revisions) + Cardinality(InFlight("revise")) < MaxRevisions
            /\ task' = [task EXCEPT ![NewSlot] =
                          [pc |-> "call", op |-> "revise", lesson_id |-> lesson_id,
                           user_id |-> user_id, feedback |-> feedback,
                           original_lesson |->
                               Snapshot(SelectLesson(lesson_plans, lesson_id, user_id)[1]),
                           llm_calls |-> 0]]
            /\ last' = NoResponse
       ELSE /\ last' = Counted(entry.response, 0)
            /\ UNCHANGED task
    /\ UNCHANGED <<lesson_plans, lesson_revisions, background, revise_log, ai, auth>>

ReviseLesson ==
    \E lesson_id \in LessonIds, user_id \in Users, feedback \in Feedbacks, dbok \in BOOLEAN :
        ReviseStarts(lesson_id, user_id, feedback, dbok)

(* The history of the lesson's revise calls that went as far as the       *)
(* Reviser: the feedback of each call that returned, in the order they    *)
(* returned, and whether a call ended in an exception.                    *)
Logged(log, lesson_id, response, feedback) ==
    [log EXCEPT ![lesson_id] =
        IF response.status = 200
        THEN [@ EXCEPT !.ok = Append(@, feedback)]
        ELSE [@ EXCEPT !.bad = TRUE]]

(* The response, with a note of the rating the update found on the row. *)
Overwrote(response, rating) ==
    [k \in DOMAIN response \cup {"overwrote"} |->
        IF k = "overwrote" THEN rating ELSE response[k]]

(* revise_lesson: the Reviser's answer; its exception is logged and raised *)
(* again, and the route answers 500.                                       *)
ReviseCall(s) ==
    \E reply \in Served(ReviserServed) :
        LET t == task[s]
            original_lesson == t.original_lesson
            revision_result == revise_lesson_plan(original_lesson.plan_json, t.feedback,
                                   original_lesson.topic, original_lesson.grade,
                                   original_lesson.duration, reply)
            llm_calls == t.llm_calls
                             + call_llm(reply, ReviserMaxTokens, DefaultTemperature).requests
            failed == Counted(ServerError("revise", t.user_id, t.lesson_id, "owned",
                                          revision_result.error),
                              llm_calls)
        IN  /\ t.pc = "call"
            /\ IF revision_result.ok
               THEN /\ task' = [task EXCEPT ![s] =
                                  [pc |-> "insert_revision", op |-> "revise",
                                   lesson_id |-> t.lesson_id, user_id |-> t.user_id,
                                   feedback |-> t.feedback,
                                   revision_result |-> [plan |-> revision_result.plan,
                                                        metadata |-> revision_result.metadata],
                                   next_revision_number |->
                                       NextRevisionNumber(original_lesson),
                                   llm_calls |-> llm_calls]]
                    /\ last' = NoResponse
                    /\ UNCHANGED revise_log
               ELSE /\ task' = [task EXCEPT ![s] = Idle]
                    /\ last' = failed
                    /\ revise_log' = Logged(revise_log, t.lesson_id, failed, t.feedback)
            /\ UNCHANGED <<lesson_plans, lesson_revisions, background, ai, auth>>

(* A variant that replaces a row of the lesson with the same number. *)
InsertRevision_Upsert(revisions, revision_data) ==
    IF \E i \in DOMAIN revisions :
           /\ revisions[i].lesson_id = revision_data.lesson_id
           /\ revisions[i].revision_number = revision_data.revision_number
    THEN [i \in DOMAIN revisions |->
             IF /\ revisions[i].lesson_id = revision_data.lesson_id
                /\ revisions[i].revision_number = revision_data.revision_number
             THEN revision_data
             ELSE revisions[i]]
    ELSE Append(revisions, revision_data)

(* table("lesson_revisions").insert(revision_data) *)
InsertRevision(revisions, revision_data) == Append(revisions, revision_data)

(* revise_lesson: the insert into lesson_revisions. *)
ReviseInsert(s) ==
    \E dbok \in BOOLEAN :
        LET t == task[s]
            revision_data == [lesson_id |-> t.lesson_id,
                              revision_number |-> t.next_revision_number,
                              revised_plan_json |-> t.revision_result.plan,
                              revision_feedback |-> t.feedback,
                              revision_metadata |-> t.revision_result.metadata]
            failed == Counted(ServerError("revise", t.user_id, t.lesson_id, "owned",
                                  "Failed to store revision in lesson_revisions table"),
                              t.llm_calls)
        IN  /\ t.pc = "insert_revision"
            /\ IF dbok
               THEN /\ lesson_revisions' = InsertRevision(lesson_revisions, revision_data)
                    /\ task' = [task EXCEPT ![s] = [t EXCEPT !.pc = "update"]]
                    /\ last' = NoResponse
                    /\ UNCHANGED revise_log
               ELSE /\ task' = [task EXCEPT ![s] = Idle]
                    /\ last' = failed
                    /\ revise_log' = Logged(revise_log, t.lesson_id, failed, t.feedback)
                    /\ UNCHANGED lesson_revisions
            /\ UNCHANGED <<lesson_plans, background, ai, auth>>

(* A variant that leaves the rating as it is. *)
RevisionUpdate_KeepRating(plan, feedback, next_revision_number) ==
    [revised_plan_json |-> plan,
     revision_feedback |-> JStr(feedback),
     current_revision_number |-> next_revision_number,
     updated_at |-> "time of revision"]

(* The fields revise_lesson writes to the lesson row; datetime.now() is    *)
(* later than the time the row was created.                                *)
RevisionUpdate(plan, feedback, next_revision_number) ==
    [revised_plan_json |-> plan,
     revision_feedback |-> JStr(feedback),
     current_revision_number |-> next_revision_number,
     updated_at |-> "time of revision",
     user_rating |-> JNull]

(* A variant whose failed update takes the revision row back. *)
ReviseUpdate_RollsBack(s) ==
    \E dbok \in BOOLEAN :
        LET t == task[s]
            updated == UpdateOwnedLesson(lesson_plans, t.lesson_id, t.user_id,
                           RevisionUpdate(t.revision_result.plan, t.feedback,
                                          t.next_revision_number))
            response ==
                IF dbok
                THEN LessonResponse("revise", t.user_id, t.lesson_id, "owned",
                                    format_lesson(updated[t.lesson_id]))
                ELSE ServerError("revise", t.user_id, t.lesson_id, "owned",
                                 "Failed to update lesson with revision")
        IN  /\ t.pc = "update"
            /\ lesson_plans' = IF dbok THEN updated ELSE lesson_plans
            /\ lesson_revisions' =
                   IF dbok THEN lesson_revisions
                   ELSE SelectSeq(lesson_revisions,
                            LAMBDA r : ~(/\ r.lesson_id = t.lesson_id
                                         /\ r.revision_number = t.next_revision_number))
            /\ last' = Counted(Overwrote(response, lesson_plans[t.lesson_id].user_rating),
                               t.llm_calls)
            /\ revise_log' = Logged(revise_log, t.lesson_id, response, t.feedback)
            /\ task' = [task EXCEPT ![s] = Idle]
            /\ UNCHANGED <<background, ai, auth>>

(* revise_lesson: the update of lesson_plans and the response. *)
ReviseUpdate(s) ==
    \E dbok \in BOOLEAN :
        LET t == task[s]
            updated == UpdateOwnedLesson(lesson_plans, t.lesson_id, t.user_id,
                           RevisionUpdate(t.revision_result.plan, t.feedback,
                                          t.next_revision_number))
            response ==
                IF dbok
                THEN LessonResponse("revise", t.user_id, t.lesson_id, "owned",
                                    format_lesson(updated[t.lesson_id]))
                ELSE ServerError("revise", t.user_id, t.lesson_id, "owned",
                                 "Failed to update lesson with revision")
        IN  /\ t.pc = "update"
            /\ lesson_plans' = IF dbok THEN updated ELSE lesson_plans
            /\ last' = Counted(Overwrote(response, lesson_plans[t.lesson_id].user_rating),
                               t.llm_calls)
            /\ revise_log' = Logged(revise_log, t.lesson_id, response, t.feedback)
            /\ task' = [task EXCEPT ![s] = Idle]
            /\ UNCHANGED <<lesson_revisions, background, ai, auth>>

(* ---------------------- GET /{lesson_id}/revisions --------------------- *)

RevisionsResponse(user_id, lesson_id, target, revisions) ==
    Response("revisions", user_id, lesson_id, target, 200, "",
             [kind |-> "revisions", v |-> revisions])

(* get_lesson_revisions up to its ownership check: no owned row, or an     *)
(* exception, gives the empty list.                                        *)
get_lesson_revisions_entry(plans, lesson_id, user_id, dbok) ==
    LET target == Target(plans, lesson_id, user_id) IN
    IF ~dbok \/ SelectLesson(plans, lesson_id, user_id) = <<>>
    THEN [go |-> FALSE, response |-> RevisionsResponse(user_id, lesson_id, target, <<>>)]
    ELSE [go |-> TRUE, response |-> NoResponse]

GetLessonRevisions ==
    \E lesson_id \in LessonIds, user_id \in Users, dbok \in BOOLEAN :
        LET entry == get_lesson_revisions_entry(lesson_plans, lesson_id, user_id, dbok) IN
        /\ IF entry.go
           THEN /\ FreeSlots # {}
                /\ task' = [task EXCEPT ![NewSlot] =
                              [pc |-> "select_revisions", op |-> "revisions",
                               lesson_id |-> lesson_id, user_id |-> user_id]]
                /\ last' = NoResponse
           ELSE /\ last' = entry.response
                /\ UNCHANGED task
        /\ UNCHANGED <<lesson_plans, lesson_revisions, background, revise_log, ai, auth>>

(* get_lesson_revisions: the ordered select of the lesson's revisions. *)
GetRevisionsSelect(s) ==
    \E dbok \in BOOLEAN :
        LET t == task[s] IN
        /\ t.pc = "select_revisions"
        /\ \E revisions \in IF dbok
                            THEN OrderByRevisionNumber(RevisionsOf(lesson_revisions, t.lesson_id))
                            ELSE {<<>>} :
               last' = RevisionsResponse(t.user_id, t.lesson_id, "owned", revisions)
        /\ task' = [task EXCEPT ![s] = Idle]
        /\ UNCHANGED <<lesson_plans, lesson_revisions, background, revise_log, ai, auth>>

(* --------------------------- specifications ---------------------------- *)

Init ==
    /\ lesson_plans = <<>>
    /\ lesson_revisions = <<>>
    /\ task = [s \in 1..MaxInFlight |-> [pc |-> "idle"]]
    /\ background = <<>>
    /\ last = NoResponse
    /\ revise_log = <<>>
    /\ ai = [method |-> "none"]
    /\ auth = [call |-> "none"]

(* The HTTP layer sends the response before the next step is taken. *)
Deliver ==
    /\ last # NoResponse
    /\ last' = NoResponse
    /\ UNCHANGED <<lesson_plans, lesson_revisions, task, background, revise_log, ai, auth>>

(* No response is waiting to be sent: the server takes its next step. *)
Ready == last = NoResponse

Next ==
    \/ Ready /\ GenerateLesson
    \/ Ready /\ GetLessons
    \/ Ready /\ GetLesson
    \/ Ready /\ RateLesson
    \/ Ready /\ ReviseLesson
    \/ Ready /\ GetLessonRevisions
    \/ Ready /\ \E s \in 1..MaxInFlight : GenerateInsert(s)
    \/ Ready /\ \E s \in 1..MaxInFlight : ReviseCall(s)
    \/ Ready /\ \E s \in 1..MaxInFlight : ReviseInsert(s)
    \/ Ready /\ \E s \in 1..MaxInFlight : ReviseUpdate(s)
    \/ Ready /\ \E s \in 1..MaxInFlight : GetRevisionsSelect(s)
    \/ Ready /\ \E l \in DOMAIN background : BackgroundEvaluate(l)
    \/ Ready /\ \E l \in DOMAIN background : BackgroundUpdate(l)
    \/ Deliver

Spec == Init /\ [][Next]_vars

(* The same server when revise requests do not overlap: a revise request   *)
(* arrives only after the one before it has been answered.                 *)
NextSeq ==
    \/ Ready /\ GenerateLesson
    \/ Ready /\ GetLessons
    \/ Ready /\ GetLesson
    \/ Ready /\ RateLesson
    \/ Ready /\ InFlight("revise") = {} /\ ReviseLesson
    \/ Ready /\ GetLessonRevisions
    \/ Ready /\ \E s \in 1..MaxInFlight : GenerateInsert(s)
    \/ Ready /\ \E s \in 1..MaxInFlight : ReviseCall(s)
    \/ Ready /\ \E s \in 1..MaxInFlight : ReviseInsert(s)
    \/ Ready /\ \E s \in 1..MaxInFlight : ReviseUpdate(s)
    \/ Ready /\ \E s \in 1..MaxInFlight : GetRevisionsSelect(s)
    \/ Ready /\ \E l \in DOMAIN background : BackgroundEvaluate(l)
    \/ Ready /\ \E l \in DOMAIN background : BackgroundUpdate(l)
    \/ Deliver

SpecSeq == Init /\ [][NextSeq]_vars

(* The event loop runs a task that is ready: a response is sent, and the  *)
(* evaluation task of a lesson is not passed over for ever.               *)
EvaluationTask(l) ==
    /\ Ready
    /\ l \in DOMAIN background
    /\ (BackgroundEvaluate(l) \/ BackgroundUpdate(l))

SpecFair ==
    /\ Spec
    /\ WF_vars(Deliver)
    /\ \A l \in LessonIds : SF_vars(EvaluationTask(l))

(* ------------- AIService on its own: each method, every reply ---------- *)

SamplePlans ==
    { generate_lesson_plan("Photosynthesis", "5", 45,
          LLMText("none", Body(JsonText, j), FALSE)).plan :
      j \in { Obj([objectives |-> <<"o1", "o2", "o3">>, structure |-> LLMStructure]),
              Obj([objectives |-> <<>>, structure |-> LLMStructure]) } }

SampleFeedback == {"add a hands-on experiment", "make it shorter"}

AIGenerate ==
    \E topic \in Topics, grade \in Grades, duration \in Durations, reply \in GeneratorReplies :
        /\ ai' = [method |-> "generate_lesson_plan",
                  topic |-> topic, grade |-> grade, duration |-> duration,
                  reply |-> reply,
                  out |-> generate_lesson_plan(topic, grade, duration, reply)]
        /\ UNCHANGED <<dbvars, auth>>

AIEvaluate ==
    \E plan \in SamplePlans, topic \in Topics, reply \in EvaluatorReplies :
        /\ ai' = [method |-> "evaluate_lesson_plan",
                  lesson_plan |-> plan, topic |-> topic,
                  reply |-> reply,
                  out |-> evaluate_lesson_plan(plan, topic, "5", 45, reply)]
        /\ UNCHANGED <<dbvars, auth>>

AIRevise ==
    \E plan \in SamplePlans, feedback \in SampleFeedback, reply \in ReviserReplies :
        /\ ai' = [method |-> "revise_lesson_plan",
                  original_plan |-> plan, feedback |-> feedback,
                  reply |-> reply,
                  out |-> revise_lesson_plan(plan, feedback, "Photosynthesis", "5", 45, reply)]
        /\ UNCHANGED <<dbvars, auth>>

AINext == AIGenerate \/ AIEvaluate \/ AIRevise

SpecAI == Init /\ [][AINext]_vars


(* ------------- utils/auth.py: get_current_user on its own -------------- *)

(* datetime.now(timezone.utc).timestamp() when the token is decoded. *)
CurrentTime == 1

(* Seconds that pass between the library's check of exp and the code's. *)
Elapsed == {0, 1}

(* os.getenv("SUPABASE_JWT_SECRET"): unset, set to "", or set. *)
JwtSecrets == {JNull, JStr(""), JStr("secret")}

(* The key a token was signed with. *)
SigningKeys == {"secret", "other"}

OptionalClaim(name, values) == {name :> v : v \in values}

NoClaim == [c \in {} |-> 0]

(* The claims of a token, as create_test_jwt builds them, each of sub,  *)
(* role, aud and exp present or absent.                                  *)
Payloads ==
    { [email |-> "test@example.com", iat |-> CurrentTime - 1] @@ s @@ r @@ a @@ e :
        s \in {NoClaim} \cup OptionalClaim("sub", {"", "alice"}),
        r \in {NoClaim} \cup OptionalClaim("role", {"authenticated", "anon"}),
        a \in {NoClaim} \cup OptionalClaim("aud", {"authenticated", "other"}),
        e \in {NoClaim} \cup OptionalClaim("exp", {CurrentTime - 1, CurrentTime,
                                                   CurrentTime + 1}) }

(* credentials.credentials: a signed token, or a string that is no JWT. *)
Tokens ==
    {[form |-> "jws", key |-> k, payload |-> p] : k \in SigningKeys, p \in Payloads}
        \cup {[form |-> "invalid.jwt.token"]}

(* dict.get(key, default) *)
Get(payload, key, default) ==
    IF key \in DOMAIN payload THEN payload[key] ELSE default

JWTError(message) == [exc |-> "JWTError", message |-> message]

Returned(value) == [exc |-> "none", value |-> value]

(* jose.jwt.decode(token, key, algorithms=["HS256"], audience=...): the    *)
(* header and signature are verified, then the claims exp and aud; each    *)
(* failure is a JWTError with the library's message, as words.             *)
jwt_decode_Unverified(token, key, audience, now) ==
    IF token.form # "jws" THEN JWTError(<<"Not", "enough", "segments">>)
    ELSE Returned(token.payload)

jwt_decode(token, key, audience, now) ==
    IF token.form # "jws" THEN JWTError(<<"Not", "enough", "segments">>)
    ELSE IF token.key # key THEN JWTError(<<"Signature", "verification", "failed">>)
    ELSE IF "exp" \in DOMAIN token.payload /\ token.payload.exp < now
        THEN JWTError(<<"Signature", "has", "expired">>)
    ELSE IF "aud" \in DOMAIN token.payload /\ token.payload.aud # audience
        THEN JWTError(<<"Invalid", "audience">>)
    ELSE Returned(token.payload)

(* str.lower(), word by word *)
Lower(words) ==
    LET lower == [Not |-> "not", Signature |-> "signature", Invalid |-> "invalid"] IN
    [i \in DOMAIN words |-> IF words[i] \in DOMAIN lower THEN lower[words[i]] ELSE words[i]]

(* "expired" in str(e).lower() *)
MentionsExpired(message) == \E i \in DOMAIN Lower(message) : Lower(message)[i] = "expired"

(* The except clauses of get_current_user: a JWTError becomes a 401, an   *)
(* HTTPException raised in the try block is raised again as it is.        *)
AuthExcept_Generic(raised) ==
    IF raised.exc = "JWTError"
    THEN IF MentionsExpired(raised.message)
         THEN [kind |-> "http", status |-> 401, detail |-> "Token has expired"]
         ELSE [kind |-> "http", status |-> 401, detail |-> "Invalid or malformed token"]
    ELSE [kind |-> "http", status |-> 500, detail |-> "Authentication service error"]

AuthExcept(raised) ==
    IF raised.exc = "JWTError"
    THEN IF MentionsExpired(raised.message)
         THEN [kind |-> "http", status |-> 401, detail |-> "Token has expired"]
         ELSE [kind |-> "http", status |-> 401, detail |-> "Invalid or malformed token"]
    ELSE [kind |-> "http", status |-> raised.status, detail |-> raised.detail]

AuthRaise(status, detail) ==
    AuthExcept([exc |-> "HTTPException", status |-> status, detail |-> detail])

(* not x, for None and str *)
Falsy(x) == x.kind = "null" \/ x.v = ""

get_current_user(token, jwt_secret, elapsed) ==
    IF Falsy(jwt_secret)
    THEN AuthRaise(500, "Authentication service configuration error")
    ELSE
    LET decoded == jwt_decode(token, jwt_secret.v, "authenticated", CurrentTime) IN
    IF decoded.exc # "none" THEN AuthExcept(decoded) ELSE
    LET payload == decoded.value
        user_id == Get(payload, "sub", "")
        email == Get(payload, "email", "")
        role == Get(payload, "role", "authenticated")
    IN
    IF user_id = ""
    THEN AuthRaise(401, "Invalid token: missing user identification")
    ELSE IF role # "authenticated"
    THEN AuthRaise(401, "Invalid token: user not authenticated")
    ELSE IF /\ "exp" \in DOMAIN payload
            /\ payload.exp # 0
            /\ payload.exp < CurrentTime + elapsed
    THEN AuthRaise(401, "Token has expired")
    ELSE [kind |-> "user", user_id |-> user_id, email |-> email, role |-> role,
          raw_payload |-> payload]

GetCurrentUser ==
    \E token \in Tokens, jwt_secret \in JwtSecrets, elapsed \in Elapsed :
        /\ auth' = [call |-> "get_current_user", token |-> token,
                    jwt_secret |-> jwt_secret, elapsed |-> elapsed,
                    out |-> get_current_user(token, jwt_secret, elapsed)]
        /\ UNCHANGED <<dbvars, ai>>

SpecAuth == Init /\ [][GetCurrentUser]_vars


(* ------------------------------ properties ----------------------------- *)

(* What the client receives of a response. *)
Sent(response) ==
    [status |-> response.status, detail |-> response.detail, body |-> response.body]

(* The response reports a failure of the database itself. *)
DatabaseFailed(response) ==
    response.detail \in {DbError, "Failed to submit rating: " \o DbError}

Owner(l) == lesson_plans[l].user_id

(* The revise requests on lesson l that are under way. *)
RevisesOf(l) == {s \in InFlight("revise") : task[s].lesson_id = l}

(* Slot s ends a revise request on lesson l in this step, answering 200. *)
ReviseReturns(s, l) ==
    /\ task[s].pc = "update" /\ task[s].lesson_id = l
    /\ task'[s].pc = "idle"
    /\ last'.status = 200

(* What get_revisions may return to the owner of lesson l in this state. *)
RevisionsReturned(l) ==
    IF get_lesson_revisions_entry(lesson_plans, l, Owner(l), TRUE).go
    THEN OrderByRevisionNumber(RevisionsOf(lesson_revisions, l))
    ELSE {<<>>}

(* C1: a lesson just created has counter 0 and no revisions; after N      *)
(* revise calls by its owner that ran one after another and all returned  *)
(* successfully, the counter is N and get_revisions returns N rows        *)
(* numbered 1..N in that order, each with the feedback of its call.       *)
C1_RevisionNumbering ==
    \A l \in DOMAIN lesson_plans :
        (RevisesOf(l) = {} /\ ~revise_log[l].bad) =>
            LET N == Len(revise_log[l].ok) IN
            /\ lesson_plans[l].current_revision_number = N
            /\ \A revisions \in RevisionsReturned(l) :
                   /\ Len(revisions) = N
                   /\ \A i \in 1..N :
                          /\ revisions[i].revision_number = i
                          /\ revisions[i].revision_feedback = revise_log[l].ok[i]

C1_Witness ==
    \E l \in DOMAIN lesson_plans :
        /\ RevisesOf(l) = {} /\ ~revise_log[l].bad
        /\ Len(revise_log[l].ok) = MaxRevisions
        /\ lesson_plans[l].current_revision_number = MaxRevisions
        /\ Len(RevisionsOf(lesson_revisions, l)) = MaxRevisions

(* C2: the revision counter of a lesson never goes down, and every revise *)
(* call that returns successfully raises it by exactly 1, also when       *)
(* revise requests on the lesson interleave.                              *)
C2_CounterOnlyIncreases ==
    [][\A l \in DOMAIN lesson_plans :
          /\ lesson_plans'[l].current_revision_number
                 >= lesson_plans[l].current_revision_number
          /\ \A s \in 1..MaxInFlight :
                 ReviseReturns(s, l) =>
                     lesson_plans'[l].current_revision_number
                         = lesson_plans[l].current_revision_number + 1]_vars

(* C3: a revise call that returns successfully leaves the lesson's rating *)
(* absent, whatever it was, and an absent rating stays absent until a     *)
(* rate call on the lesson succeeds.                                      *)
C3_ReviseClearsRating ==
    [][\A l \in DOMAIN lesson_plans :
          /\ \A s \in 1..MaxInFlight :
                 ReviseReturns(s, l) => lesson_plans'[l].user_rating.kind = "null"
          /\ (lesson_plans[l].user_rating.kind = "null"
                  /\ lesson_plans'[l].user_rating.kind # "null")
                 => (last'.op = "rate" /\ last'.lesson_id = l /\ last'.status = 200)]_vars

C3_Witness ==
    \E l \in DOMAIN lesson_plans :
        /\ last.op = "revise" /\ last.lesson_id = l /\ last.status = 200
        /\ last.overwrote = JBool(FALSE)
        /\ lesson_plans[l].user_rating.kind = "null"

(* C4: get, rate, revise and get_revisions on an existing lesson by a     *)
(* caller who does not own it are answered 404.                           *)
C4_NonOwnerNotFound ==
    (/\ last.op \in {"get", "rate", "revise", "revisions"}
     /\ last.target = "foreign"
     /\ ~DatabaseFailed(last))
        => last.status = 404

(* The table without lesson l. *)
Without(plans, l) == [k \in DOMAIN plans \ {l} |-> plans[k]]

(* C5: to a caller who does not own a lesson, get, list, rate, revise and *)
(* get_revisions answer as if the lesson did not exist and write nothing: *)
(* no field of it is returned, no rating, counter or revision row is      *)
(* written, and the Reviser is not called.                                *)
C5_NonOwnerIsolation ==
    /\ [](/\ \A l \in DOMAIN lesson_plans : \A u \in Users \ {Owner(l)}, dbok \in BOOLEAN :
                 LET hidden == Without(lesson_plans, l) IN
                 /\ Sent(get_lesson(lesson_plans, l, u, dbok))
                        = Sent(get_lesson(hidden, l, u, dbok))
                 /\ Sent(get_lessons(lesson_plans, u, dbok))
                        = Sent(get_lessons(hidden, u, dbok))
                 /\ \A rating \in BOOLEAN :
                        /\ Sent(rate_lesson(lesson_plans, l, u, rating, dbok))
                               = Sent(rate_lesson(hidden, l, u, rating, dbok))
                        /\ rate_lesson_update(lesson_plans, l, u, rating) = lesson_plans
                 /\ \A feedback \in Feedbacks :
                        LET here == revise_lesson_entry(lesson_plans, l, u, feedback, dbok)
                            gone == revise_lesson_entry(hidden, l, u, feedback, dbok)
                        IN  /\ ~here.go /\ ~gone.go
                            /\ Sent(here.response) = Sent(gone.response)
                 /\ LET here == get_lesson_revisions_entry(lesson_plans, l, u, dbok)
                        gone == get_lesson_revisions_entry(hidden, l, u, dbok)
                    IN  /\ ~here.go /\ ~gone.go
                        /\ Sent(here.response) = Sent(gone.response)
           /\ \A s \in InFlight("revise") \cup InFlight("revisions") :
                 task[s].user_id = Owner(task[s].lesson_id))
    /\ [][(last'.op # "none" /\ last'.target = "foreign") =>
              /\ lesson_plans' = lesson_plans
              /\ lesson_revisions' = lesson_revisions
              /\ task' = task]_vars

C5_Witness ==
    \E l \in DOMAIN lesson_plans :
        /\ lesson_plans[l].current_revision_number > 0
        /\ lesson_plans[l].revised_plan_json.kind = "object"
        /\ RevisionsOf(lesson_revisions, l) # <<>>
        /\ last.op = "revise" /\ last.lesson_id = l /\ last.target = "foreign"

(* C6: at the HTTP boundary, get, rate and revise on an absent or         *)
(* non-owned lesson are answered 404, and revise with empty or            *)
(* whitespace-only feedback is answered 400; neither is answered 500.     *)
C6_ClientErrorsAre4xx ==
    /\ (/\ last.op \in {"get", "rate", "revise"}
        /\ last.target \in {"absent", "foreign"}
        /\ ~DatabaseFailed(last))
           => last.status = 404
    /\ (last.op = "revise" /\ last.target = "unchecked") => last.status = 400

RequiredStructure == {"introduction", "main_activity", "assessment", "timing"}

RubricNames == {"objective_clarity", "age_appropriateness", "completeness"}

(* C7: whatever text the completion endpoint returns to the Generator,     *)
(* generate_lesson_plan returns (no error) a plan whose objectives are a   *)
(* non-empty list and whose structure has introduction, main_activity,     *)
(* assessment and timing.                                                  *)
C7_GenerateAlwaysWellFormed ==
    (ai.method = "generate_lesson_plan" /\ ai.reply.kind = "text") =>
        /\ ai.out.ok
        /\ ai.out.plan.v.objectives # <<>>
        /\ RequiredStructure \subseteq DOMAIN ai.out.plan.v.structure

(* C8: whatever the Evaluator's completion call does, evaluate_lesson_plan *)
(* returns an object with exactly the three rubric entries, each with a    *)
(* score, and an overall_score between 0 and 1 (0 and 10 tenths).          *)
C8_EvaluateAlwaysWellFormed ==
    ai.method = "evaluate_lesson_plan" =>
        /\ IsObject(ai.out)
        /\ DOMAIN ai.out.v \ {"overall_score", "suggestions"} = RubricNames
        /\ \A r \in RubricNames : "score" \in DOMAIN ai.out.v[r]
        /\ "overall_score" \in DOMAIN ai.out.v
        /\ ai.out.v.overall_score >= 0 /\ ai.out.v.overall_score <= 10

(* The reply is a text that json.loads rejects after the fences are cut.   *)
UnparsableReply(reply) ==
    /\ reply.kind = "text"
    /\ \/ reply.body.json.kind = "none"
       \/ reply.open = "bare"

(* C9: when the Reviser's reply is not parsable JSON, revise_lesson_plan   *)
(* returns (does not raise) the original plan unchanged, with metadata     *)
(* revision_failed = true and the feedback text.                           *)
C9_ReviserParseFallback ==
    (ai.method = "revise_lesson_plan" /\ UnparsableReply(ai.reply)) =>
        /\ ai.out.ok
        /\ ai.out.plan = ai.original_plan
        /\ "revision_failed" \in DOMAIN ai.out.metadata
        /\ ai.out.metadata.revision_failed = TRUE
        /\ ai.out.metadata.feedback = ai.feedback

C9_Witness ==
    /\ ai.method = "revise_lesson_plan"
    /\ UnparsableReply(ai.reply)
    /\ ai.out.ok
    /\ ai.out.plan = ai.original_plan


(* C10: when the Reviser's completion call fails, revise_lesson_plan      *)
(* raises, the route answers 500, and the revise call has written         *)
(* nothing: no revision row, and the lesson row is as it was.             *)
C10_FailedCallChangesNothing ==
    [][\A s \in 1..MaxInFlight :
          task[s].pc = "call" =>
              LET original_lesson == task[s].original_lesson IN
              /\ ~revise_lesson_plan(original_lesson.plan_json, task[s].feedback,
                                     original_lesson.topic, original_lesson.grade,
                                     original_lesson.duration, LLMError).ok
              /\ task'[s].pc = "idle" =>
                     /\ last'.op = "revise" /\ last'.status = 500
                     /\ last'.detail = "Failed to generate revision: LLM API call failed"
                     /\ lesson_plans' = lesson_plans
                     /\ lesson_revisions' = lesson_revisions]_vars

C10_Witness ==
    \E l \in DOMAIN lesson_plans :
        /\ last.op = "revise" /\ last.lesson_id = l /\ last.status = 500
        /\ last.detail = "Failed to generate revision: LLM API call failed"
        /\ lesson_plans[l].current_revision_number = 1
        /\ lesson_plans[l].user_rating.kind = "bool"
        /\ Len(RevisionsOf(lesson_revisions, l)) = 1

(* C11: the evaluation task of a lesson is created in the step that      *)
(* inserts the lesson, once, and in no other step (not when generation or *)
(* the insert fails); the record create returns has no evaluation and its *)
(* task has not run; an evaluation is written only to an inserted lesson. *)
C11_EvaluationLaunchedAfterInsert ==
    /\ [](/\ DOMAIN background = DOMAIN lesson_plans
          /\ (last.op = "generate" /\ last.status = 200) =>
                 /\ last.body.v.evaluation.kind = "null"
                 /\ lesson_plans[last.lesson_id].evaluation.kind = "null"
                 /\ background[last.lesson_id].pc = "evaluate"
          /\ \A l \in DOMAIN lesson_plans :
                 lesson_plans[l].evaluation.kind # "null" => background[l].pc = "done")
    /\ [][/\ Len(background') \in {Len(background), Len(background) + 1}
          /\ Len(background') = Len(background) + 1 <=>
                 (/\ \E s \in 1..MaxInFlight : task[s].pc = "insert" /\ task'[s].pc = "idle"
                  /\ last'.op = "generate" /\ last'.status = 200
                  /\ Len(lesson_plans') = Len(lesson_plans) + 1)
          /\ (last'.op = "generate" /\ last'.status # 200) =>
                 /\ background' = background
                 /\ lesson_plans' = lesson_plans]_vars

C11_Witness ==
    /\ last.op = "generate" /\ last.status = 200
    /\ last.body.v.evaluation.kind = "null"
    /\ background[last.lesson_id].pc = "evaluate"
    /\ Len(background) = 1

(* The completions the Evaluator cannot use: a failed call, unparsable text. *)
EvaluatorFailing == {r \in Served(EvaluatorServed) : r.kind = "error" \/ UnparsableReply(r)}

(* C12 as stated: for every lesson created, an evaluation document is     *)
(* eventually persisted on its record.                                    *)
C12_EvaluationEventuallyPersisted ==
    \A l \in LessonIds :
        (l \in DOMAIN lesson_plans)
            ~> (l \in DOMAIN lesson_plans /\ lesson_plans[l].evaluation.kind # "null")

(* C12 amended: the evaluation task of every lesson created terminates    *)
(* without an error leaving it; when its update succeeds the document it  *)
(* computed is on the record, and for a failed or unparsable completion   *)
(* that document is the fixed fallback; when its update fails the failure *)
(* is swallowed and the record keeps no evaluation.                       *)
C12_EvaluationTaskTerminates ==
    /\ \A l \in LessonIds :
           (l \in DOMAIN background)
               ~> (l \in DOMAIN background /\ background[l].pc \in {"done", "failed"})
    /\ [](\A l \in DOMAIN lesson_plans :
             /\ background[l].pc = "done" <=> lesson_plans[l].evaluation.kind # "null"
             /\ \A reply \in EvaluatorFailing :
                    evaluate_lesson_plan(lesson_plans[l].plan_json, lesson_plans[l].topic,
                                         lesson_plans[l].grade, lesson_plans[l].duration,
                                         reply) = FallbackEvaluation)
    /\ [][\A l \in DOMAIN background :
             (background[l].pc = "update" /\ background'[l].pc = "done")
                 => lesson_plans'[l].evaluation = background[l].evaluation]_vars

C12_Witness ==
    \E l \in DOMAIN lesson_plans :
        /\ background[l].pc = "done"
        /\ lesson_plans[l].evaluation = FallbackEvaluation

(* The feedback is empty or all whitespace. *)
Blank(feedback) == \A i \in DOMAIN feedback : feedback[i] \in Whitespace

(* C13: a revise request with empty or whitespace-only feedback ends at   *)
(* the route: revise_lesson is not entered, so the Reviser is not called, *)
(* no revision row is written and the lesson record is unchanged.         *)
C13_BlankFeedbackRejected ==
    /\ [](/\ \A feedback \in {f \in Feedbacks : Blank(f)} :
                \A lesson_id \in LessonIds, user_id \in Users, dbok \in BOOLEAN :
                    LET entry == revise_lesson_entry(lesson_plans, lesson_id, user_id,
                                                     feedback, dbok)
                    IN  ~entry.go /\ entry.response.target = "unchecked"
          /\ \A s \in InFlight("revise") : ~Blank(task[s].feedback)
          /\ \A i \in DOMAIN lesson_revisions : ~Blank(lesson_revisions[i].revision_feedback))
    /\ [][(last'.op = "revise" /\ last'.target = "unchecked") =>
              /\ task' = task
              /\ lesson_plans' = lesson_plans
              /\ lesson_revisions' = lesson_revisions]_vars

C13_Witness ==
    /\ last.op = "revise" /\ last.target = "unchecked"
    /\ last.lesson_id \in DOMAIN lesson_plans
    /\ lesson_plans[last.lesson_id].current_revision_number = 1
    /\ Len(lesson_revisions) = 1

(* The response reports an exception raised on the content of a received *)
(* completion: a missing key, or a JSON value that is not an object.      *)
ContentError(response) == response.detail \in {"KeyError", "TypeError"}

(* C14: a completion that was received but is not the expected JSON       *)
(* (unparsable, or lacking fields) is replaced by the component's         *)
(* fallback and never makes create or revise end in an error.             *)
C14_ParseErrorsAbsorbed ==
    (last.op \in {"generate", "revise"} /\ last.status # 200) => ~ContentError(last)

(* C15: revision rows are append-only: every step keeps the rows there   *)
(* are, unchanged and in place; a row is added only by the insert of a    *)
(* revise call, one at a time, for that call's lesson.                    *)
C15_RevisionsAppendOnly ==
    [][/\ Len(lesson_revisions') >= Len(lesson_revisions)
       /\ SubSeq(lesson_revisions', 1, Len(lesson_revisions)) = lesson_revisions
       /\ lesson_revisions' # lesson_revisions =>
              /\ Len(lesson_revisions') = Len(lesson_revisions) + 1
              /\ \E s \in 1..MaxInFlight :
                     /\ task[s].pc = "insert_revision" /\ task'[s].pc = "update"
                     /\ lesson_revisions'[Len(lesson_revisions')].lesson_id
                            = task[s].lesson_id]_vars

C15_Witness ==
    /\ Len(lesson_revisions) = MaxRevisions
    /\ lesson_revisions[1] # lesson_revisions[2]
    /\ last.op = "rate" /\ last.status = 200
    /\ \E l \in DOMAIN background : background[l].pc = "done"

(* C16: the two writes of revise are not atomic: a revise call whose     *)
(* lesson update fails ends in an error and leaves its revision row in    *)
(* place and the lesson row as it was, so that a row numbered k+1 stands  *)
(* against a counter still k, latest-revision fields not updated and a    *)
(* rating not cleared.                                                    *)
C16_FailedUpdateLeavesRevisionRow ==
    [][\A s \in 1..MaxInFlight :
          (task[s].pc = "update" /\ task'[s].pc = "idle" /\ last'.status # 200) =>
              /\ last'.op = "revise" /\ last'.status = 500
              /\ lesson_plans' = lesson_plans
              /\ lesson_revisions' = lesson_revisions
              /\ \E i \in DOMAIN lesson_revisions' :
                     /\ lesson_revisions'[i].lesson_id = task[s].lesson_id
                     /\ lesson_revisions'[i].revision_number = task[s].next_revision_number]_vars

C16_Witness ==
    \E l \in DOMAIN lesson_plans :
        /\ last.op = "revise" /\ last.lesson_id = l /\ last.status = 500
        /\ last.detail = "Failed to update lesson with revision"
        /\ RevisesOf(l) = {}
        /\ lesson_plans[l].current_revision_number = 0
        /\ lesson_plans[l].revised_plan_json.kind = "null"
        /\ lesson_plans[l].revision_feedback.kind = "null"
        /\ lesson_plans[l].user_rating.kind = "bool"
        /\ Len(RevisionsOf(lesson_revisions, l)) = 1
        /\ RevisionsOf(lesson_revisions, l)[1].revision_number = 1

(* ----------------------- C17, C18: authentication ---------------------- *)

(* The token was signed with the configured secret. *)
CorrectlySigned(token, jwt_secret) ==
    token.form = "jws" /\ ~Falsy(jwt_secret) /\ token.key = jwt_secret.v

(* The token carries an exp claim that lies before the time t. *)
ExpiredAt(token, t) ==
    token.form = "jws" /\ "exp" \in DOMAIN token.payload /\ token.payload.exp < t

AuthError(status, detail) == [kind |-> "http", status |-> status, detail |-> detail]

(* What C17 says of the tokens that are refused: a correctly signed token *)
(* that has expired is answered 401 'Token has expired', a malformed or   *)
(* wrongly signed one 401 'Invalid or malformed token'.                   *)
RefusedAsStated ==
    /\ (CorrectlySigned(auth.token, auth.jwt_secret) /\ ExpiredAt(auth.token, CurrentTime))
          => auth.out = AuthError(401, "Token has expired")
    /\ (~Falsy(auth.jwt_secret) /\ ~CorrectlySigned(auth.token, auth.jwt_secret))
          => auth.out = AuthError(401, "Invalid or malformed token")

(* C17 as stated: get_current_user returns an identity only for a token   *)
(* that is correctly signed, unexpired, carries a sub claim and has the   *)
(* role 'authenticated', and the user_id it returns is the token's sub;   *)
(* an expired token is refused with 401 'expired', a malformed or wrongly *)
(* signed one with 401 'invalid or malformed'.                            *)
C17_IdentityOnlyWithAuthenticatedRole ==
    auth.call = "get_current_user" =>
        /\ auth.out.kind = "user" =>
              /\ CorrectlySigned(auth.token, auth.jwt_secret)
              /\ ~ExpiredAt(auth.token, CurrentTime + auth.elapsed)
              /\ "sub" \in DOMAIN auth.token.payload
              /\ auth.out.user_id = auth.token.payload.sub
              /\ "role" \in DOMAIN auth.token.payload
              /\ auth.token.payload.role = "authenticated"
        /\ RefusedAsStated

(* C17, amended: get_current_user returns an identity only for a token    *)
(* that is correctly signed, unexpired, carries a sub claim and whose     *)
(* role claim is 'authenticated' or absent; the user_id it returns is the *)
(* token's sub and the role it returns is 'authenticated'; the refusals   *)
(* are as stated.                                                         *)
C17_IdentityOnlyForVerifiedToken ==
    auth.call = "get_current_user" =>
        /\ auth.out.kind = "user" =>
              /\ CorrectlySigned(auth.token, auth.jwt_secret)
              /\ ~ExpiredAt(auth.token, CurrentTime + auth.elapsed)
              /\ "sub" \in DOMAIN auth.token.payload
              /\ auth.out.user_id = auth.token.payload.sub
              /\ "role" \in DOMAIN auth.token.payload
                    => auth.token.payload.role = "authenticated"
              /\ auth.out.role = "authenticated"
        /\ RefusedAsStated

(* An identity is returned for a token that carries no role claim. *)
C17_Witness ==
    /\ auth.call = "get_current_user"
    /\ auth.out.kind = "user"
    /\ "role" \notin DOMAIN auth.token.payload
    /\ auth.out.user_id = "alice"

(* C18: with the JWT secret not configured, get_current_user answers 500  *)
(* 'Authentication service configuration error' whatever the token is,    *)
(* and that error is neither a 401 nor the generic 500.                   *)
C18_UnconfiguredSecretIs500 ==
    (auth.call = "get_current_user" /\ Falsy(auth.jwt_secret)) =>
        auth.out = AuthError(500, "Authentication service configuration error")

(* The secret is unset, the token is one that a configured service would  *)
(* accept, and the call answers the configuration error.                  *)
C18_Witness ==
    /\ auth.call = "get_current_user"
    /\ auth.jwt_secret = JNull
    /\ auth.token.form = "jws"
    /\ auth.token.key = "secret"
    /\ auth.out.kind = "http"
    /\ auth.out.status = 500

(* ------------------- C19, C20: revision numbers, frames ---------------- *)

(* C19: within one lesson no two revision rows carry the same revision    *)
(* number, and when a revise call that inserted a row ends, the lesson's  *)
(* revision counter equals the number of that row; also when revise       *)
(* requests on the lesson interleave and after a failed lesson update.    *)
C19_RevisionNumbersUniqueAndCurrent ==
    /\ [](\A i \in DOMAIN lesson_revisions : \A j \in DOMAIN lesson_revisions :
              (/\ i # j
               /\ lesson_revisions[i].lesson_id = lesson_revisions[j].lesson_id)
                  => lesson_revisions[i].revision_number
                         # lesson_revisions[j].revision_number)
    /\ [][\A s \in 1..MaxInFlight :
              (task[s].pc = "update" /\ task'[s].pc = "idle") =>
                  lesson_plans'[task[s].lesson_id].current_revision_number
                      = task[s].next_revision_number]_vars

(* The columns of lesson l that the step changes. *)
Changed(l) ==
    {k \in DOMAIN lesson_plans[l] : lesson_plans'[l][k] # lesson_plans[l][k]}

ImmutableFields == {"id", "user_id", "topic", "grade", "duration", "plan_json"}

ReviseFields ==
    {"revised_plan_json", "revision_feedback", "current_revision_number",
     "updated_at", "user_rating"}

(* The columns the operation that takes the step may write. *)
OwnFields ==
    IF \E l \in DOMAIN background : background[l].pc = "update" /\ background'[l].pc # "update"
    THEN {"evaluation"}
    ELSE IF last'.op = "rate"
    THEN {"user_rating"}
    ELSE IF \E s \in 1..MaxInFlight : task[s].pc = "update" /\ task'[s].pc = "idle"
    THEN ReviseFields
    ELSE {}

(* C20: every step changes of a lesson row only the fields of the         *)
(* operation that takes it: the background evaluation only evaluation,    *)
(* rate only user_rating, revise only revised_plan_json,                  *)
(* revision_feedback, current_revision_number, updated_at and             *)
(* user_rating, any other step none; id, user_id, topic, grade, duration  *)
(* and plan_json never change. An evaluation that was written is changed  *)
(* by no rate or revise step, and the evaluation write leaves the rating, *)
(* the counter and the latest revision as they are.                       *)
C20_OperationsWriteOwnFields ==
    [][\A l \in DOMAIN lesson_plans :
          /\ l \in DOMAIN lesson_plans'
          /\ Changed(l) \subseteq OwnFields
          /\ Changed(l) \cap ImmutableFields = {}
          /\ (lesson_plans[l].evaluation.kind # "null" /\ OwnFields # {"evaluation"})
                => lesson_plans'[l].evaluation = lesson_plans[l].evaluation
          /\ "evaluation" \in Changed(l)
                => Changed(l) \cap ReviseFields = {}]_vars

(* All three operations have acted on one lesson: it was rated, a revise *)
(* call has returned and cleared that rating, raising the counter to 1   *)
(* and setting updated_at, and the background task has written the        *)
(* evaluation, which is in place.                                         *)
C20_Witness ==
    \E l \in DOMAIN lesson_plans :
        /\ last.op = "revise" /\ last.lesson_id = l /\ last.status = 200
        /\ last.overwrote.kind = "bool"
        /\ background[l].pc = "done"
        /\ lesson_plans[l].evaluation.kind = "object"
        /\ lesson_plans[l].current_revision_number = 1
        /\ lesson_plans[l].updated_at = "time of revision"
        /\ lesson_plans[l].user_rating.kind = "null"

(* --------------------- C21, C22: what revise works on ------------------ *)

(* C21: every revise call hands the Reviser the lesson's plan_json, which *)
(* no step changes after creation, however many revisions exist: the      *)
(* result that goes into the revision row is what revise_lesson_plan      *)
(* makes of that plan and the call's feedback for some reply, and         *)
(* revised_plan_json has no part in it.                                   *)
C21_ReviserGetsOriginalPlan ==
    /\ [](\A s \in 1..MaxInFlight :
              task[s].pc = "call" =>
                  task[s].original_lesson.plan_json
                      = lesson_plans[task[s].lesson_id].plan_json)
    /\ [][/\ \A l \in DOMAIN lesson_plans :
                 lesson_plans'[l].plan_json = lesson_plans[l].plan_json
          /\ \A s \in 1..MaxInFlight :
                 (task[s].pc = "call" /\ task'[s].pc = "insert_revision") =>
                     \E reply \in Served(ReviserServed) :
                         LET row == lesson_plans[task[s].lesson_id]
                             r == revise_lesson_plan(row.plan_json, task[s].feedback,
                                      row.topic, row.grade, row.duration, reply)
                         IN  /\ r.ok
                             /\ task'[s].revision_result.plan = r.plan
                             /\ task'[s].revision_result.metadata = r.metadata]_vars

(* A second revise call is about to reach the Reviser: the lesson has a   *)
(* revision whose plan differs from plan_json, and the call holds         *)
(* plan_json.                                                             *)
C21_Witness ==
    \E s \in 1..MaxInFlight :
        /\ task[s].pc = "call"
        /\ lesson_plans[task[s].lesson_id].current_revision_number = 1
        /\ lesson_plans[task[s].lesson_id].revised_plan_json.kind = "object"
        /\ lesson_plans[task[s].lesson_id].revised_plan_json
               # lesson_plans[task[s].lesson_id].plan_json
        /\ task[s].original_lesson.plan_json = lesson_plans[task[s].lesson_id].plan_json

(* The revise call in slot s carries the Reviser's parse-failure fallback. *)
CarriesFallback(s) ==
    /\ task[s].pc \in {"insert_revision", "update"}
    /\ "revision_failed" \in DOMAIN task[s].revision_result.metadata

LLMFailure == "LLM API call failed"

(* C23: no completion call is retried: a create request, successful or   *)
(* failed, has issued exactly one Generator call when it answers; the     *)
(* evaluation task of a lesson has issued none before it runs and one     *)
(* after; a revise request has issued none when it answers for a lesson   *)
(* that is absent or not the caller's and at most one otherwise; a failed *)
(* call is answered once, with 500 and the one error of call_llm.         *)
C23_NoCompletionCallRetried ==
    /\ last.op = "generate" => last.llm_calls = 1
    /\ \A s \in 1..MaxInFlight :
           /\ task[s].pc = "insert" => task[s].llm_calls = 1
           /\ task[s].pc = "call" => task[s].llm_calls = 0
           /\ task[s].pc \in {"insert_revision", "update"} => task[s].llm_calls = 1
    /\ \A l \in DOMAIN background :
           background[l].llm_calls = IF background[l].pc = "evaluate" THEN 0 ELSE 1
    /\ last.op = "revise" =>
           /\ last.llm_calls <= 1
           /\ last.target \in {"absent", "foreign"} => last.llm_calls = 0
           /\ last.status = 200 => last.llm_calls = 1
    /\ (last.op = "generate" /\ last.llm_calls = 1 /\ last.detail = LLMFailure)
           => last.status = 500
    /\ (last.op = "revise" /\ last.detail = "Failed to generate revision: " \o LLMFailure)
           => (last.status = 500 /\ last.llm_calls = 1)

(* A create request whose completion call failed answers 500 with the    *)
(* error of call_llm, after one call.                                     *)
C23_Witness ==
    /\ last.op = "generate" /\ last.status = 500 /\ last.detail = LLMFailure
    /\ last.llm_calls = 1

(* --------------------- C24: the generation metadata -------------------- *)

(* C24: the generation metadata of a generated plan, parsed or fallback,  *)
(* records the model, max_tokens and temperature that were passed to the  *)
(* Generator's completion call, with the prompt, the system message, the  *)
(* timestamp and the token usage; on the fallback path it has             *)
(* parsing_failed = true and at most 500 characters of the response.      *)
C24_MetadataRecordsCallParameters ==
    (ai.method = "generate_lesson_plan" /\ ai.out.ok) =>
        LET metadata == ai.out.generation_metadata
            llm_result == call_llm(ai.reply, GeneratorMaxTokens, DefaultTemperature)
        IN  /\ metadata.model = llm_result.request.model
            /\ metadata.max_tokens = llm_result.request.max_tokens
            /\ metadata.temperature = llm_result.request.temperature
            /\ metadata.token_usage = llm_result.usage
            /\ {"prompt_used", "system_prompt", "generated_at"} \subseteq DOMAIN metadata
            /\ UnparsableReply(ai.reply) =>
                   /\ "parsing_failed" \in DOMAIN metadata
                   /\ metadata.parsing_failed = TRUE
                   /\ metadata.raw_response.n <= RawResponseLimit

====
